---- MODULE Spec2Model ----
(***************************************************************************)
(* A model of minio/helpers.py: the part splitter parts_manager, the       *)
(* target URL builder get_target_url, the bucket name validator            *)
(* is_valid_bucket_name and the part size policy calculate_part_size.      *)
(*                                                                         *)
(* Strings are sequences of one-character strings, byte strings are        *)
(* sequences of integers in 0..255.  Each function has its own             *)
(* specification (SpecParts, SpecUrl, SpecBucket, SpecSize); the variables *)
(* of the other functions keep their idle values in it.                    *)
(***************************************************************************)
EXTENDS Integers, Sequences, FiniteSets, TLC

VARIABLES
    \* ---- parts_manager: the caller's stream and the call in progress
    stream,          \* the bytes of the input reader `data`
    pos,             \* the reader's cursor: bytes already read
    partSize,        \* the part_size argument, the same for every call
    tempfileBound,   \* whether the module global `tempfile` is bound
    pc,              \* "idle" | "loop" | "ret" | "raised"
    tmpdata,         \* bytes written to the temporary file of this call
    md5hasher,       \* state of hashlib.md5() of this call
    sha256hasher,    \* state of hashlib.sha256() of this call
    total_read,      \* the local total_read of this call
    parts,           \* the PartMetadata objects returned so far, in order
    \* ---- get_target_url: one input tuple, two orderings of its query map
    endpoint, bucket_name, object_name,
    query,           \* <<q1, q2>>: the same entries in two insertion orders
    url,             \* <<r1, r2>>: the outcome of the call on q1 and on q2
    \* ---- is_valid_bucket_name
    bname, bresult,
    \* ---- calculate_part_size
    length, trueDiv, sresult

partsVars  == <<stream, pos, partSize, tempfileBound, pc, tmpdata, md5hasher,
                sha256hasher, total_read, parts>>
urlVars    == <<endpoint, bucket_name, object_name, query, url>>
bucketVars == <<bname, bresult>>
sizeVars   == <<length, trueDiv, sresult>>
vars       == <<partsVars, urlVars, bucketVars, sizeVars>>

\* Python's None where a string may stand (strings are sequences of
\* one-character strings, so it is none of them)
None == <<"None">>
\* an absent query map, and a dict with its items in insertion order
NoQuery == [none |-> TRUE, items |-> <<>>]
Dict(items) == [none |-> FALSE, items |-> items]
\* a call of get_target_url not made yet
Pending == [status |-> "pending", url |-> <<>>]

Min(a, b) == IF a <= b THEN a ELSE b

(***************************************************************************)
(* parts_manager (helpers.py 43-64)                                        *)
(***************************************************************************)

\* data.read(1024): the read increment of the loop
ReadSize == 1024
\* the default of the part_size parameter, 5*1024*1024
DefaultPartSize == 5242880

\* Bounds of the model: streams of up to MaxChunks read increments (one byte
\* less, exactly, one byte more), a reader that may return ShortRead bytes
\* where more were asked for, and MaxEmptyParts calls that return an empty part.
MaxChunks == 2
ShortRead == 700
MaxEmptyParts == 2

\* The names helpers.py binds at module level by its import statements
\* (lines 20-26).  `tempfile`, which line 51 reads, is not among them: the file
\* as it stands leaves it unbound, and it is bound only when the importing
\* program sets it on the module.  Both cases are modelled.
ModuleImports == {"collections", "binascii", "hashlib", "re",
                  "urlsplit", "basestring", "urlencode",
                  "InvalidBucketError", "InvalidEndpointError"}

StreamSeeds == {7, 101}
StreamByte(seed, i) == (i * seed + (i \div 256)) % 256
MkStream(seed, n) == [i \in 1..n |-> StreamByte(seed, i)]

Around(S) == {n \in {s + d : s \in S, d \in {-1, 0, 1}} : n >= 0}
StreamLens == Around({k * ReadSize : k \in 0..MaxChunks})
PartSizes  == Around({k * ReadSize : k \in 0..MaxChunks})
                 \cup {1000, (MaxChunks + 1) * ReadSize, DefaultPartSize}

\* hashlib.md5() / hashlib.sha256(): a fresh hash state, update() folding the
\* bytes in, in order, and digest() finalizing it.  The two algorithms are
\* modelled as two different rolling hashes.  The fold takes the bytes lo..hi
\* in order, first half then second half, the state of the first half being
\* the start of the second.
Md5New == 7
Md5Step(h, b) == (h * 31 + b + 1) % 65521
Sha256New == 11
Sha256Step(h, b) == (h * 131 + b + 1) % 65537

RECURSIVE Md5Fold(_, _, _, _)
Md5Fold(h, s, lo, hi) ==
    IF lo > hi THEN h
    ELSE IF lo = hi THEN Md5Step(h, s[lo])
    ELSE LET mid == (lo + hi) \div 2 IN
         CHOOSE v \in {Md5Fold(left, s, mid + 1, hi) :
                            left \in {Md5Fold(h, s, lo, mid)}} : TRUE

RECURSIVE Sha256Fold(_, _, _, _)
Sha256Fold(h, s, lo, hi) ==
    IF lo > hi THEN h
    ELSE IF lo = hi THEN Sha256Step(h, s[lo])
    ELSE LET mid == (lo + hi) \div 2 IN
         CHOOSE v \in {Sha256Fold(left, s, mid + 1, hi) :
                            left \in {Sha256Fold(h, s, lo, mid)}} : TRUE

\* a hasher that forgets what it absorbed before this update
Md5UpdateRestart(h, chunk) == Md5Fold(Md5New, chunk, 1, Len(chunk))
Md5Update(h, chunk) == Md5Fold(h, chunk, 1, Len(chunk))
Sha256Update(h, chunk) == Sha256Fold(h, chunk, 1, Len(chunk))
Md5Digest(h) == <<"md5", h>>
Sha256Digest(h) == <<"sha256", h>>

\* the temporary file keeps only the last write
TmpWriteOverwrite(tmp, chunk) == chunk
\* tmpdata.write(current_data)
TmpWrite(tmp, chunk) == tmp \o chunk

\* The byte counts data.read(n) may return with `remaining` bytes left: all
\* that was asked for (or all that is left), or fewer; none only at the end.
ReadOutcomes(n, remaining) ==
    IF remaining = 0 THEN {0}
    ELSE {Min(n, remaining), Min(Min(n, ShortRead), remaining)}

\* data.read(n): the byte strings the reader may return at its cursor
StreamRead(n) ==
    {SubSeq(stream, pos + 1, pos + k) : k \in ReadOutcomes(n, Len(stream) - pos)}

\* a read shorter than the increment taken for the end of the stream
IsEofShort(current_data) == Len(current_data) < ReadSize
\* `not current_data or len(current_data) == 0`
IsEof(current_data) == current_data = <<>> \/ Len(current_data) = 0

PartMetadata(data, md5digest, sha256digest, size) ==
    [data |-> data, md5digest |-> md5digest,
     sha256digest |-> sha256digest, size |-> size]

EmptyParts == Cardinality({i \in 1..Len(parts) : parts[i].size = 0})

\* line 51 with `tempfile` unbound: NameError, the call ends without a part
CallRaises ==
    /\ pc = "idle"
    /\ ~tempfileBound
    /\ pc' = "raised"
    /\ UNCHANGED <<stream, pos, partSize, tempfileBound, tmpdata, md5hasher,
                   sha256hasher, total_read, parts>>
    /\ UNCHANGED <<urlVars, bucketVars, sizeVars>>

\* lines 51-54: a new temporary file, two new hashers, total_read = 0
Call ==
    /\ pc = "idle"
    /\ tempfileBound
    /\ EmptyParts < MaxEmptyParts
    /\ tmpdata' = <<>>
    /\ md5hasher' = Md5New
    /\ sha256hasher' = Sha256New
    /\ total_read' = 0
    /\ pc' = "loop"
    /\ UNCHANGED <<stream, pos, partSize, tempfileBound, parts>>
    /\ UNCHANGED <<urlVars, bucketVars, sizeVars>>

\* lines 55-62: one iteration of the loop
LoopRead ==
    /\ pc = "loop"
    /\ total_read < partSize
    /\ \E current_data \in StreamRead(ReadSize) :
         /\ pos' = pos + Len(current_data)
         /\ IF IsEof(current_data)
            THEN /\ pc' = "ret"
                 /\ UNCHANGED <<tmpdata, md5hasher, sha256hasher, total_read>>
            ELSE /\ tmpdata' = TmpWrite(tmpdata, current_data)
                 /\ md5hasher' = Md5Update(md5hasher, current_data)
                 /\ sha256hasher' = Sha256Update(sha256hasher, current_data)
                 /\ total_read' = total_read + Len(current_data)
                 /\ pc' = "loop"
    /\ UNCHANGED <<stream, partSize, tempfileBound, parts>>
    /\ UNCHANGED <<urlVars, bucketVars, sizeVars>>

\* line 55: the loop condition fails
LoopExit ==
    /\ pc = "loop"
    /\ ~(total_read < partSize)
    /\ pc' = "ret"
    /\ UNCHANGED <<stream, pos, partSize, tempfileBound, tmpdata, md5hasher,
                   sha256hasher, total_read, parts>>
    /\ UNCHANGED <<urlVars, bucketVars, sizeVars>>

\* line 64
Return ==
    /\ pc = "ret"
    /\ parts' = Append(parts, PartMetadata(tmpdata, Md5Digest(md5hasher),
                                           Sha256Digest(sha256hasher), total_read))
    /\ pc' = "idle"
    /\ UNCHANGED <<stream, pos, partSize, tempfileBound, tmpdata, md5hasher,
                   sha256hasher, total_read>>
    /\ UNCHANGED <<urlVars, bucketVars, sizeVars>>

UrlIdle ==
    /\ endpoint = <<>> /\ bucket_name = None /\ object_name = None
    /\ query = <<NoQuery, NoQuery>> /\ url = <<Pending, Pending>>
BucketIdle == bname = <<>> /\ bresult = "off"
SizeIdle == length = <<>> /\ trueDiv = FALSE /\ sresult = <<>>
PartsIdle ==
    /\ stream = <<>> /\ pos = 0 /\ partSize = 0 /\ tempfileBound = FALSE
    /\ pc = "off" /\ tmpdata = <<>> /\ md5hasher = Md5New
    /\ sha256hasher = Sha256New /\ total_read = 0 /\ parts = <<>>

InitParts ==
    /\ \E seed \in StreamSeeds, n \in StreamLens : stream = MkStream(seed, n)
    /\ pos = 0
    /\ partSize \in PartSizes
    /\ tempfileBound \in {"tempfile" \in ModuleImports, TRUE}
    /\ pc = "idle"
    /\ tmpdata = <<>> /\ md5hasher = Md5New /\ sha256hasher = Sha256New
    /\ total_read = 0
    /\ parts = <<>>
    /\ UrlIdle /\ BucketIdle /\ SizeIdle

NextParts == CallRaises \/ Call \/ LoopRead \/ LoopExit \/ Return

SpecParts == InitParts /\ [][NextParts]_vars

\* The caller keeps calling and every started call runs on: the loop and the
\* return are sequential code, so a step that can be taken is taken.
FairSpecParts == SpecParts /\ WF_vars(NextParts)

(***************************************************************************)
(* parts_manager: the claims                                               *)
(***************************************************************************)

RECURSIVE ConcatData(_)
ConcatData(ps) == IF ps = <<>> THEN <<>> ELSE ps[1].data \o ConcatData(Tail(ps))

LastPart == parts[Len(parts)]
IsShort(p) == p.size < partSize \/ p.size = 0

C10_NeverRaises ==
    partSize >= 1 =>
        /\ pc # "raised"
        /\ \A i \in 1..Len(parts) : \A j \in (i + 1)..Len(parts) :
              parts[i].size = 0 => parts[j].size = 0

\* C10, its liveness part: with a part size >= 1 the caller eventually gets a
\* part of size 0.
C10_EventuallyEmptyPart ==
    partSize >= 1 => <>(parts # <<>> /\ LastPart.size = 0)

\* What holds of C10 where `tempfile` is bound: every call returns, the caller
\* eventually gets a part of size 0, and a non-empty part took bytes.
C10_TerminatesWhenBound ==
    /\ (tempfileBound /\ partSize >= 1) => <>(parts # <<>> /\ LastPart.size = 0)
    /\ tempfileBound => []((pc \in {"loop", "ret"}) => <>(pc = "idle"))

(***************************************************************************)
(* Strings                                                                 *)
(***************************************************************************)

\* The characters of the model in ascending code point order: Python compares
\* strings code point by code point.
CharOrder ==
    <<"\t", "\n", " ", "#", "%", "&", "-", ".", "/", "0", "1", "2", "3", "4", "5", "6", "7", "8", "9", ":", "=", "?", "@", "A", "B", "C", "D", "E", "F", "G", "H", "I", "J", "K", "L", "M", "N", "O", "P", "Q", "R", "S", "T", "U", "V", "W", "X", "Y", "Z", "_", "a", "b", "c", "d", "e", "f", "g", "h", "i", "j", "k", "l", "m", "n", "o", "p", "q", "r", "s", "t", "u", "v", "w", "x", "y", "z", "~">>
Ord(c) == CHOOSE i \in 1..Len(CharOrder) : CharOrder[i] = c

Lower == {"a", "b", "c", "d", "e", "f", "g", "h", "i", "j", "k", "l", "m",
          "n", "o", "p", "q", "r", "s", "t", "u", "v", "w", "x", "y", "z"}
Upper == {"A", "B", "C", "D", "E", "F", "G", "H", "I", "J", "K", "L", "M",
          "N", "O", "P", "Q", "R", "S", "T", "U", "V", "W", "X", "Y", "Z"}
Digit == {"0", "1", "2", "3", "4", "5", "6", "7", "8", "9"}
Whitespace == {" ", "\t", "\n"}

\* a < b for two strings
StrLess(a, b) ==
    \E i \in 1..(Len(b)) :
        /\ i <= Len(a) + 1
        /\ SubSeq(a, 1, i - 1) = SubSeq(b, 1, i - 1)
        /\ (i = Len(a) + 1 \/ Ord(a[i]) < Ord(b[i]))

\* `needle in hay`
Contains(hay, needle) ==
    \E i \in 1..(Len(hay) - Len(needle) + 1) :
        SubSeq(hay, i, i + Len(needle) - 1) = needle

EndsWith(s, suffix) ==
    /\ Len(s) >= Len(suffix)
    /\ SubSeq(s, Len(s) - Len(suffix) + 1, Len(s)) = suffix

RECURSIVE Join(_, _)
Join(sep, ss) ==
    IF ss = <<>> THEN <<>>
    ELSE IF Len(ss) = 1 THEN ss[1]
    ELSE ss[1] \o sep \o Join(sep, Tail(ss))

(***************************************************************************)
(* get_target_url (helpers.py 66-110), with is_non_empty_string (172-184)  *)
(* and encode_object_name (186-194)                                        *)
(***************************************************************************)

\* the most entries a query map of the model holds
MaxQueryEntries == 3

AmazonAws == <<"a", "m", "a", "z", "o", "n", "a", "w", "s", ".", "c", "o", "m">>

\* the strings of the endpoints, the bucket and the query of the model
HttpsLocalhost == <<"h", "t", "t", "p", "s", ":", "/", "/", "l", "o", "c", "a", "l", "h", "o", "s", "t", ":", "9", "0", "0", "0">>
HttpsS3Amazon == <<"h", "t", "t", "p", "s", ":", "/", "/", "s", "3", ".", "a", "m", "a", "z", "o", "n", "a", "w", "s", ".", "c", "o", "m">>
HttpAmazonLocal == <<"h", "t", "t", "p", ":", "/", "/", "a", "m", "a", "z", "o", "n", "a", "w", "s", ".", "c", "o", "m", ".", "l", "o", "c", "a", "l">>
S3Amazon == <<"s", "3", ".", "a", "m", "a", "z", "o", "n", "a", "w", "s", ".", "c", "o", "m">>
AmazonLocal == <<"a", "m", "a", "z", "o", "n", "a", "w", "s", ".", "c", "o", "m", ".", "l", "o", "c", "a", "l">>
Localhost9000 == <<"l", "o", "c", "a", "l", "h", "o", "s", "t", ":", "9", "0", "0", "0">>
Https == <<"h", "t", "t", "p", "s">>
Http == <<"h", "t", "t", "p">>
Hello == <<"h", "e", "l", "l", "o">>
Acl == <<"a", "c", "l">>
\* the url tests/unit/set_bucket_acl_test.py expects for bucket hello and query acl
UrlOfTheAclTest ==
    <<"h", "t", "t", "p", "s", ":", "/", "/", "l", "o", "c", "a", "l", "h", "o", "s", "t", ":", "9", "0", "0", "0", "/", "h", "e", "l", "l", "o", "/", "?", "a", "c", "l">>

\* The endpoints of the model, each with the scheme and the network location
\* it is written with.
Endpoints == {
    [text |-> HttpsLocalhost,
     scheme |-> Https, netloc |-> Localhost9000],
    [text |-> HttpsS3Amazon,
     scheme |-> Https, netloc |-> S3Amazon],
    [text |-> HttpAmazonLocal,
     scheme |-> Http, netloc |-> AmazonLocal]}
Buckets == {None, Hello}
Objects == {None, <<"a", "/", "b", ".", "t", "x", "t">>, <<" ">>}
\* query entries <<key, value>>, the keys distinct; a value may be None
EntryPool == {
    <<Acl, None>>,
    <<<<"u", "p", "l", "o", "a", "d", "I", "d">>, <<"1", "2", "3">>>>,
    <<<<"p", "a", "r", "t", "N", "u", "m", "b", "e", "r">>, <<"1">>>>,
    <<<<"p", "r", "e", "f", "i", "x">>, <<"a", "/", "b", " ", "c">>>>,
    <<<<>>, None>>}

\* the orders a dict with the entries S may have been filled in
Orderings(S) ==
    {q \in [1..Cardinality(S) -> S] : \A i, j \in 1..Cardinality(S) : q[i] = q[j] => i = j}
QueryPairs ==
    {<<NoQuery, NoQuery>>} \cup
    UNION {{<<Dict(q1), Dict(q2)>> : q1 \in Orderings(S), q2 \in Orderings(S)} :
             S \in {T \in SUBSET EntryPool : Cardinality(T) <= MaxQueryEntries}}

\* urlsplit(endpoint): the scheme before "://" and the network location up to
\* the next "/", "?" or "#"
UrlSplit(e) ==
    LET colon == CHOOSE i \in 1..Len(e) : e[i] = ":" /\ \A j \in 1..(i - 1) : e[j] # ":"
        start == colon + 3
        stops == {i \in start..Len(e) : e[i] \in {"/", "?", "#"}}
        stop  == IF stops = {} THEN Len(e) + 1
                 ELSE CHOOSE i \in stops : \A j \in stops : i <= j
    IN  [scheme |-> SubSeq(e, 1, colon - 1), netloc |-> SubSeq(e, start, stop - 1)]

\* urlencode(text): percent-encoding, every character but letters, digits and
\* "_", ".", "-", "~" replaced by "%" and its code in hexadecimal
PercentCode(c) ==
    CASE c = " " -> <<"%", "2", "0">>
      [] c = "#" -> <<"%", "2", "3">>
      [] c = "%" -> <<"%", "2", "5">>
      [] c = "&" -> <<"%", "2", "6">>
      [] c = "/" -> <<"%", "2", "F">>
      [] c = ":" -> <<"%", "3", "A">>
      [] c = "=" -> <<"%", "3", "D">>
      [] c = "?" -> <<"%", "3", "F">>
      [] c = "@" -> <<"%", "4", "0">>
      [] c = "\t" -> <<"%", "0", "9">>
      [] c = "\n" -> <<"%", "0", "A">>
RECURSIVE UrlEncode(_)
UrlEncode(s) ==
    IF s = <<>> THEN <<>>
    ELSE (IF s[1] \in Lower \cup Upper \cup Digit \cup {"_", ".", "-", "~"}
          THEN <<s[1]>> ELSE PercentCode(s[1])) \o UrlEncode(Tail(s))

\* .replace('/', '%2F')
RECURSIVE ReplaceSlash(_)
ReplaceSlash(s) ==
    IF s = <<>> THEN <<>>
    ELSE (IF s[1] = "/" THEN <<"%", "2", "F">> ELSE <<s[1]>>) \o ReplaceSlash(Tail(s))

\* is_non_empty_string(input_string) for a string: ValueError when strip()
\* leaves nothing
IsNonEmptyString(s) == \E i \in 1..Len(s) : s[i] \notin Whitespace

\* sorted(query.items()): insertion into the sorted list, by key
RECURSIVE InsertItem(_, _)
InsertItem(item, sorted) ==
    IF sorted = <<>> THEN <<item>>
    ELSE IF StrLess(item[1], sorted[1][1]) THEN <<item>> \o sorted
    ELSE <<sorted[1]>> \o InsertItem(item, Tail(sorted))
RECURSIVE SortItems(_)
SortItems(q) == IF q = <<>> THEN <<>> ELSE InsertItem(q[1], SortItems(Tail(q)))

\* the items in the order the dict gives them
ItemsInsertionOrder(q) == q
\* collections.OrderedDict(sorted(query.items()))
OrderedQuery(q) == SortItems(q)

\* lines 98-103: one `key` or `key=value` component
SingleComponent(item) ==
    IF item[2] # None
    THEN item[1] \o <<"=">> \o ReplaceSlash(UrlEncode(item[2]))
    ELSE item[1]

\* virtual-hosted style only for a network location ending in amazonaws.com
IsAmazonSuffix(netloc) == EndsWith(netloc, AmazonAws)
\* line 81: 'amazonaws.com' in parsed_url.netloc
IsAmazon(netloc) == Contains(netloc, AmazonAws)

\* lines 76-84
BaseUrl(e, bucket) ==
    LET parsed_url == UrlSplit(e) IN
    IF bucket = None
    THEN parsed_url.scheme \o <<":", "/", "/">> \o parsed_url.netloc
    ELSE IF IsAmazon(parsed_url.netloc)
         THEN parsed_url.scheme \o <<":", "/", "/">> \o bucket \o <<".">> \o parsed_url.netloc
         ELSE parsed_url.scheme \o <<":", "/", "/">> \o parsed_url.netloc \o <<"/">> \o bucket

\* lines 94-108: what the query adds to the url
QueryPart(q) ==
    IF q.none THEN <<>>
    ELSE LET ordered_query == OrderedQuery(q.items)
             query_components ==
                 [i \in 1..Len(ordered_query) |-> SingleComponent(ordered_query[i])]
             query_string == Join(<<"&">>, query_components)
         IN  IF query_string # <<>> THEN <<"?">> \o query_string ELSE <<>>

\* get_target_url(endpoint, bucket_name, object_name, query): the url, or the
\* ValueError of encode_object_name
GetTargetUrl(e, bucket, object, q) ==
    IF object # None /\ ~IsNonEmptyString(object)
    THEN [status |-> "ValueError", url |-> <<>>]
    ELSE [status |-> "ok",
          url |-> BaseUrl(e, bucket) \o <<"/">>
                    \o (IF object # None THEN UrlEncode(object) ELSE <<>>)
                    \o QueryPart(q)]

\* one call of get_target_url, on the first or the second ordering of the query
GetTargetUrlCall ==
    /\ \E i \in 1..2 :
         /\ url[i] = Pending
         /\ url' = [url EXCEPT ![i] =
                       GetTargetUrl(endpoint.text, bucket_name, object_name, query[i])]
    /\ UNCHANGED <<endpoint, bucket_name, object_name, query>>
    /\ UNCHANGED <<partsVars, bucketVars, sizeVars>>

InitUrl ==
    /\ endpoint \in Endpoints
    /\ bucket_name \in Buckets
    /\ object_name \in Objects
    /\ query \in QueryPairs
    /\ url = <<Pending, Pending>>
    /\ PartsIdle /\ BucketIdle /\ SizeIdle

NextUrl == GetTargetUrlCall

SpecUrl == InitUrl /\ [][NextUrl]_vars

(***************************************************************************)
(* get_target_url: the claims                                              *)
(***************************************************************************)

UrlDone(i) == url[i].status = "ok"
Sep == <<":", "/", "/">>

\* C6: the url starts with the base and a "/": scheme://host without a bucket,
\* scheme://bucket.host with a bucket exactly when the host contains
\* amazonaws.com, scheme://host/bucket otherwise; https://localhost:9000 with
\* bucket hello and query {acl: None} gives https://localhost:9000/hello/?acl.
C6_BaseUrlRule ==
    \A i \in 1..2 : UrlDone(i) =>
        LET base == IF bucket_name = None
                    THEN endpoint.scheme \o Sep \o endpoint.netloc
                    ELSE IF Contains(endpoint.netloc, AmazonAws)
                         THEN endpoint.scheme \o Sep \o bucket_name \o <<".">> \o endpoint.netloc
                         ELSE endpoint.scheme \o Sep \o endpoint.netloc \o <<"/">> \o bucket_name
            u == url[i].url
        IN  /\ Len(u) > Len(base)
            /\ SubSeq(u, 1, Len(base) + 1) = base \o <<"/">>
            /\ (/\ endpoint.text = HttpsLocalhost
                /\ bucket_name = Hello /\ object_name = None
                /\ query[i] = Dict(<< <<Acl, None>> >>))
               => u = UrlOfTheAclTest

C6_Witness ==
    /\ UrlDone(1) /\ UrlDone(2)
    /\ bucket_name # None
    /\ Contains(endpoint.netloc, AmazonAws)
    /\ ~EndsWith(endpoint.netloc, AmazonAws)
    /\ ~query[1].none

\* the entries of a query map in ascending key order
Ascending(q) ==
    CHOOSE s \in Orderings({q[i] : i \in 1..Len(q)}) :
        \A i, j \in 1..Len(s) : i < j => StrLess(s[i][1], s[j][1])

\* C7: two calls whose query maps hold the same entries in different insertion
\* orders return the same url; it ends with the entries in ascending key
\* order, each `key` or `key=value`, joined by "&" after the only "?", and
\* holds no "?" when that query string is empty.
C7_QueryOrderIndependent ==
    (UrlDone(1) /\ UrlDone(2)) =>
        /\ url[1] = url[2]
        /\ \A i \in 1..2 :
             LET u  == url[i].url
                 qs == IF query[i].none THEN <<>>
                       ELSE LET a == Ascending(query[i].items) IN
                            Join(<<"&">>, [k \in 1..Len(a) |->
                                IF a[k][2] = None THEN a[k][1]
                                ELSE a[k][1] \o <<"=">> \o ReplaceSlash(UrlEncode(a[k][2]))])
                 marks == {k \in 1..Len(u) : u[k] = "?"}
             IN  IF qs = <<>>
                 THEN marks = {}
                 ELSE /\ marks = {Len(u) - Len(qs)}
                      /\ SubSeq(u, Len(u) - Len(qs) + 1, Len(u)) = qs

C7_Witness ==
    /\ UrlDone(1) /\ UrlDone(2)
    /\ ~query[1].none /\ Len(query[1].items) >= 3
    /\ query[1] # query[2]
    /\ query[1].items # Ascending(query[1].items)
    /\ query[2].items # Ascending(query[2].items)

(***************************************************************************)
(* is_valid_bucket_name (helpers.py 144-170)                               *)
(***************************************************************************)

\* line 162: len(bucket_name) < 3 or len(bucket_name) > 63
MinBucketLen == 3
MaxBucketLen == 63

\* every name of up to MaxNameLen characters of NameChars is tried
MaxNameLen == 4
NameChars == {"a", "Z", "0", "-", ".", " ", "\n"}

Repeat(c, n) == [i \in 1..n |-> c]
\* names about as long as the longest legal one
LongNames ==
    UNION {{Repeat("a", n),
            Repeat("a", n - 1) \o <<"-">>,
            Repeat("a", n - 1) \o <<"\n">>,
            Repeat("a", n - 2) \o <<"-", "0">>,
            <<"a", ".">> \o Repeat("a", n - 2)} :
           n \in (MaxBucketLen - 1)..(MaxBucketLen + 2)}
\* the names of tests/unit/set_bucket_acl_test.py
TestNames == {<<"A", "B", "C", "D">>, <<" ", " ", "\t", " ", "\n", " ", " ">>, Hello}
BucketNames ==
    UNION {[1..n -> NameChars] : n \in 0..MaxNameLen} \cup LongNames \cup TestNames

Letter == Lower \cup Upper
AlNum == Lower \cup Upper \cup Digit

\* re.match of '^[a-zA-Z][a-zA-Z0-9\-]+[a-zA-Z0-9]$': NoMatch (None), or the
\* end of the match.  The '+' takes the longest run it can and gives characters
\* back until the last class and '$' match; '$' matches at the end of the string
\* and before a newline that ends it.
NoMatch == -1
DollarAt(name, p) == p = Len(name) \/ (p = Len(name) - 1 /\ name[Len(name)] = "\n")
ValidBucketMatch(name) ==
    IF Len(name) = 0 \/ name[1] \notin Letter THEN NoMatch
    ELSE LET run   == {m \in 1..Len(name) : \A k \in 2..m : name[k] \in AlNum \cup {"-"}}
             most  == CHOOSE m \in run : \A k \in run : k <= m
             ends  == {e \in 2..most : /\ e + 1 <= Len(name)
                                       /\ name[e + 1] \in AlNum
                                       /\ DollarAt(name, e + 1)}
         IN  IF ends = {} THEN NoMatch
             ELSE (CHOOSE e \in ends : \A k \in ends : k <= e) + 1

\* a match that need not reach the end of the name
MatchFailedNoEndCheck(matchEnd, name) == matchEnd = NoMatch
\* line 167: match is None or match.end() != len(bucket_name)
MatchFailed(matchEnd, name) == matchEnd = NoMatch \/ matchEnd # Len(name)

\* is_valid_bucket_name(bucket_name): True, or the exception raised
IsValidBucketName(name) ==
    IF \E i \in 1..Len(name) : name[i] = "." THEN "InvalidBucketError"
    ELSE IF Len(name) < MinBucketLen \/ Len(name) > MaxBucketLen THEN "InvalidBucketError"
    ELSE IF MatchFailed(ValidBucketMatch(name), name) THEN "InvalidBucketError"
    ELSE "True"

IsValidBucketNameCall ==
    /\ bresult = "pending"
    /\ bresult' = IsValidBucketName(bname)
    /\ UNCHANGED bname
    /\ UNCHANGED <<partsVars, urlVars, sizeVars>>

InitBucket ==
    /\ bname \in BucketNames
    /\ bresult = "pending"
    /\ PartsIdle /\ UrlIdle /\ SizeIdle

NextBucket == IsValidBucketNameCall

SpecBucket == InitBucket /\ [][NextBucket]_vars

(***************************************************************************)
(* is_valid_bucket_name: the claims                                        *)
(***************************************************************************)

HasDot(name) == \E i \in 1..Len(name) : name[i] = "."
\* the whole name is a letter, then one or more letters, digits or hyphens,
\* then a letter or digit
FullMatch(name) ==
    /\ Len(name) >= 3
    /\ name[1] \in Letter
    /\ \A i \in 2..(Len(name) - 1) : name[i] \in AlNum \cup {"-"}
    /\ name[Len(name)] \in AlNum

C9_UppercaseRejected ==
    (/\ bresult # "pending"
     /\ bname # <<>>
     /\ \/ \A i \in 1..Len(bname) : bname[i] \in Upper
        \/ \A i \in 1..Len(bname) : bname[i] \in Whitespace)
    => bresult = "InvalidBucketError"

(***************************************************************************)
(* calculate_part_size (helpers.py 240-254)                                *)
(*                                                                         *)
(* The sizes exceed 32 bits, so a natural number is a sequence of Width    *)
(* digits in base 1024, the most significant first.                        *)
(***************************************************************************)

Base == 1024
Width == 6

\* the lengths tried lie up to MaxOffset around the sizes where the result changes
MaxOffset == 12

\* the digits of an integer 0 <= n < 2^31
BigOfInt(n) ==
    [i \in 1..Width |->
        IF Width - i > 3 THEN 0
        ELSE IF Width - i = 3 THEN n \div (Base * Base * Base)
        ELSE IF Width - i = 2 THEN (n \div (Base * Base)) % Base
        ELSE IF Width - i = 1 THEN (n \div Base) % Base
        ELSE n % Base]

\* a * k for a small k >= 0, digit by digit from the least significant
RECURSIVE MulCarry(_, _, _, _)
MulCarry(a, k, i, carry) ==
    IF i = 0 THEN <<>>
    ELSE LET cur == a[i] * k + carry
         IN  MulCarry(a, k, i - 1, cur \div Base) \o <<cur % Base>>
BigMul(a, k) == MulCarry(a, k, Width, 0)

\* a + k for a small k of either sign (a + k >= 0)
RECURSIVE AddCarry(_, _, _)
AddCarry(a, i, carry) ==
    IF i = 0 THEN <<>>
    ELSE LET cur == a[i] + carry
         IN  AddCarry(a, i - 1, (cur - (cur % Base)) \div Base) \o <<cur % Base>>
BigAdd(a, k) == AddCarry(a, Width, k)

\* a < b
BigLess(a, b) ==
    \E i \in 1..Width : a[i] < b[i] /\ \A j \in 1..(i - 1) : a[j] = b[j]

\* a divided by a small d: the quotient and the remainder, by long division
\* from the most significant digit
RECURSIVE DivRem(_, _, _, _)
DivRem(a, d, i, rem) ==
    IF i > Width THEN [q |-> <<>>, r |-> rem]
    ELSE LET cur  == rem * Base + a[i]
             rest == DivRem(a, d, i + 1, cur % d)
         IN  [q |-> <<cur \div d>> \o rest.q, r |-> rest.r]
BigDivRem(a, d) == DivRem(a, d, 1, 0)

\* line 247: 1024 * 1024 * 5
minimum_part_size == BigMul(BigOfInt(1024 * 1024), 5)
\* line 248: 1024 * 1024 * 1024 * 5
maximum_part_size == BigMul(BigOfInt(1024 * 1024 * 1024), 5)
\* line 251: length / 9999
PartsReserve == 9999

\* A number of the function: an integer q (r = 0), or under true division the
\* fraction q + r/9999.
Whole(q) == [q |-> q, r |-> 0]
\* x > y, for y an integer
Greater(x, y) == BigLess(y, x.q) \/ (x.q = y /\ x.r > 0)

\* length / 9999: floor division of integers under Python 2, true division
\* under Python 3
Divide(len, true_division) ==
    LET d == BigDivRem(len, PartsReserve)
    IN  IF true_division THEN [q |-> d.q, r |-> d.r] ELSE Whole(d.q)

\* a part size that is never capped
ExceedsNever(proposed_part_size, limit) == FALSE
\* line 252: proposed_part_size > maximum_part_size
Exceeds(proposed_part_size, limit) == Greater(proposed_part_size, limit)

\* max(minimum_part_size, proposed_part_size)
MaxOf(a, x) == IF Greater(x, a) THEN x ELSE Whole(a)

\* calculate_part_size(length); a length is -1 (minusOne) or a natural number
CalculatePartSize(len, true_division) ==
    IF len.minusOne THEN Whole(maximum_part_size)
    ELSE LET proposed_part_size == Divide(len.n, true_division)
         IN  IF Exceeds(proposed_part_size, maximum_part_size)
             THEN Whole(maximum_part_size)
             ELSE MaxOf(minimum_part_size, proposed_part_size)

\* a call of calculate_part_size not made yet
SizePending == [q |-> <<>>, r |-> 0 - 1]

MinusOne == [minusOne |-> TRUE, n |-> BigOfInt(0)]
Length(n) == [minusOne |-> FALSE, n |-> n]

\* the lengths where the result changes: 0, 9999 * 5 MiB, 9999 * 5 GiB and
\* 9999 * (5 GiB + 1), and the largest length of Width - 1 digits
Pivots == {BigOfInt(MaxOffset),
           BigMul(minimum_part_size, PartsReserve),
           BigMul(maximum_part_size, PartsReserve),
           BigMul(BigAdd(maximum_part_size, 1), PartsReserve),
           BigAdd([i \in 1..Width |-> IF i = 1 THEN 0 ELSE Base - 1], 0 - MaxOffset)}
Lengths ==
    {MinusOne} \cup
    {Length(BigAdd(p, d)) : p \in Pivots, d \in (0 - MaxOffset)..MaxOffset}

CalculatePartSizeCall ==
    /\ sresult = SizePending
    /\ sresult' = CalculatePartSize(length, trueDiv)
    /\ UNCHANGED <<length, trueDiv>>
    /\ UNCHANGED <<partsVars, urlVars, bucketVars>>

InitSize ==
    /\ length \in Lengths
    /\ trueDiv \in BOOLEAN
    /\ sresult = SizePending
    /\ PartsIdle /\ UrlIdle /\ BucketIdle

NextSize == CalculatePartSizeCall

SpecSize == InitSize /\ [][NextSize]_vars

(***************************************************************************)
(* calculate_part_size: the claims                                         *)
(***************************************************************************)

FiveMiB == <<0, 0, 0, 5, 0, 0>>
FiveGiB == <<0, 0, 5, 0, 0, 0>>
BigLeq(a, b) == a = b \/ BigLess(a, b)

\* C5: calculate_part_size(length) is 5 GiB when length = -1 or
\* length / 9999 > 5 GiB, and max(5 MiB, length / 9999) otherwise; so
\* calculate(-1) = 5 GiB, calculate(0) = 5 MiB, and the result lies in
\* [5 MiB, 5 GiB].  The quotient is stated by multiplication: q + r/9999 is
\* length / 9999 when 9999 * q + r = length (true division), and q is the
\* floor of it when 9999 * q <= length < 9999 * (q + 1).
C5_PartSizePolicy ==
    sresult # SizePending =>
        LET n        == length.n
            overMax  == IF trueDiv
                        THEN BigLess(BigMul(FiveGiB, 9999), n)
                        ELSE BigLeq(BigMul(BigAdd(FiveGiB, 1), 9999), n)
            underMin == BigLess(n, BigMul(FiveMiB, 9999))
            isQuotient ==
                IF trueDiv
                THEN sresult.r \in 0..9998 /\ BigAdd(BigMul(sresult.q, 9999), sresult.r) = n
                ELSE /\ sresult.r = 0
                     /\ BigLeq(BigMul(sresult.q, 9999), n)
                     /\ BigLess(n, BigMul(BigAdd(sresult.q, 1), 9999))
        IN  /\ (length.minusOne \/ overMax) => sresult = Whole(FiveGiB)
            /\ (~length.minusOne /\ ~overMax /\ underMin) => sresult = Whole(FiveMiB)
            /\ (~length.minusOne /\ ~overMax /\ ~underMin) => isQuotient
            /\ (~length.minusOne /\ n = BigOfInt(0)) => sresult = Whole(FiveMiB)
            /\ BigLeq(FiveMiB, sresult.q)
            /\ BigLess(sresult.q, FiveGiB) \/ sresult = Whole(FiveGiB)

C5_Witness ==
    /\ sresult # SizePending
    /\ ~length.minusOne
    /\ BigLess(BigMul(FiveGiB, 9999), length.n)
    /\ sresult = Whole(FiveGiB)
====
